---------------------------- MODULE Spec2Model ----------------------------
(***************************************************************************)
(* git-extend, `git list`: the repository walker, the status resolver and  *)
(* the tree / flat / dump renderers of src/src/commands/list.rs.           *)
(* `git get`: the repository-URL parser of src/src/url_parser.rs.           *)
(*                                                                         *)
(* Text is modelled as sequences of bytes (a directory name, a branch      *)
(* name, a ref name, a line of `git status --porcelain`, a token of        *)
(* `git for-each-ref`), a path as the sequence of its components.          *)
(***************************************************************************)
EXTENDS Integers, Sequences, FiniteSets, TLC

VARIABLES
    base_dir,   \* the scan root given to execute (a path)
    fs,         \* the directory tree: path -> [is_dir, dotgit]
    gitin,      \* what Git Access answered for each repository opened so far
    stack,      \* pending calls of find_repos_recursive, next call first
    repos,      \* the Vec<RepoStatus> filled by the walk, sorted when it ends
    tree,       \* the TreeNode structure built by print_tree
    out,        \* the lines written to stdout
    pc,         \* position in execute
    url,        \* the repository reference given to parse_repo_url
    info        \* the Result<RepoInfo> it returned

vars == <<base_dir, fs, gitin, stack, repos, tree, out, pc, url, info>>

----------------------------------------------------------------------------
(* Bounds of the model. *)

\* directories and files below the scan root
MaxNodes == 3
\* local branches of one repository
MaxBranches == 2
\* lines of `git status --porcelain` output
MaxStatusLines == 2
\* pieces of a repository reference given to the URL parser
MaxSegments == 3

----------------------------------------------------------------------------
(* Bytes and byte strings. *)

B_a == <<97>>
\* a name longer than the column of the tree renderer (21 bytes)
B_a_dash_long == <<97, 45>> \o [i \in 1..19 |-> 98]
B_dot_h == <<46, 104>>
B_home == <<104, 111, 109, 101>>
B_node_modules == <<110, 111, 100, 101, 95, 109, 111, 100, 117, 108, 101, 115>>
B_target == <<116, 97, 114, 103, 101, 116>>
B_build == <<98, 117, 105, 108, 100>>
B_dist == <<100, 105, 115, 116>>
B_out == <<111, 117, 116>>
B_pycache == <<95, 95, 112, 121, 99, 97, 99, 104, 101, 95, 95>>
B_dot_cache == <<46, 99, 97, 99, 104, 101>>
B_vendor == <<118, 101, 110, 100, 111, 114>>
B_bin == <<98, 105, 110>>
B_obj == <<111, 98, 106>>

B_HEAD == <<72, 69, 65, 68>>
B_main == <<109, 97, 105, 110>>
B_dev == <<100, 101, 118>>
B_fix == <<102, 105, 120>>
B_refs_heads == <<114, 101, 102, 115, 47, 104, 101, 97, 100, 115, 47>>
B_refs_remotes == <<114, 101, 102, 115, 47, 114, 101, 109, 111, 116, 101, 115, 47>>

B_open_ahead == <<91, 97, 104, 101, 97, 100>>
B_open_behind == <<91, 98, 101, 104, 105, 110, 100>>
B_behind == <<98, 101, 104, 105, 110, 100>>
B_gone == <<91, 103, 111, 110, 101, 93>>

StartsWith(s, p) == Len(s) >= Len(p) /\ SubSeq(s, 1, Len(p)) = p

\* byte-wise lexicographic order (Ord for str, OsStr and [u8])
RECURSIVE BytesLess(_, _)
BytesLess(s, t) ==
    IF s = <<>> THEN t # <<>>
    ELSE IF t = <<>> THEN FALSE
    ELSE IF Head(s) # Head(t) THEN Head(s) < Head(t)
    ELSE BytesLess(Tail(s), Tail(t))

\* Display of a path: the components, each after a separator
RECURSIVE Display(_)
Display(p) == IF p = <<>> THEN <<>> ELSE <<47>> \o Head(p) \o Display(Tail(p))

\* faulty variant: paths compared as text, separators included
PathLess_as_text(p, q) == BytesLess(Display(p), Display(q))

\* Path::cmp: lexicographic over the components, each compared byte-wise
RECURSIVE PathLess(_, _)
PathLess(p, q) ==
    IF p = <<>> THEN q # <<>>
    ELSE IF q = <<>> THEN FALSE
    ELSE IF Head(p) # Head(q) THEN BytesLess(Head(p), Head(q))
    ELSE PathLess(Tail(p), Tail(q))

IsPrefix(p, q) == Len(p) <= Len(q) /\ SubSeq(q, 1, Len(p)) = p
StrictAncestor(p, q) == IsPrefix(p, q) /\ p # q

\* the set of the elements of a sequence
Range(s) == {s[i] : i \in 1..Len(s)}

\* all orderings of a finite set, as sequences
RECURSIVE Perms(_)
Perms(S) ==
    IF S = {} THEN {<<>>}
    ELSE UNION {{<<x>> \o rest : rest \in Perms(S \ {x})} : x \in S}


RECURSIVE SplitOn(_, _)
\* slice::split / str::split on one separator byte: the pieces between the
\* separators, a trailing separator leaving a last empty piece
SplitOn(s, sep) ==
    IF \A i \in 1..Len(s) : s[i] # sep THEN <<s>>
    ELSE LET i == CHOOSE j \in 1..Len(s) :
                      s[j] = sep /\ \A k \in 1..(j - 1) : s[k] # sep
         IN <<SubSeq(s, 1, i - 1)>> \o SplitOn(SubSeq(s, i + 1, Len(s)), sep)

\* str::lines: split on "\n", a final empty piece is dropped
Lines(s) ==
    LET ps == SplitOn(s, 10)
    IN IF ps[Len(ps)] = <<>> THEN SubSeq(ps, 1, Len(ps) - 1) ELSE ps

\* str::split_whitespace: the non-empty pieces between spaces
SplitWhitespace(s) == SelectSeq(SplitOn(s, 32), LAMBDA t : t # <<>>)

RECURSIVE TrimEndMatches(_, _)
TrimEndMatches(s, c) ==
    IF s # <<>> /\ s[Len(s)] = c THEN TrimEndMatches(SubSeq(s, 1, Len(s) - 1), c)
    ELSE s

IsDigit(b) == b >= 48 /\ b <= 57

RECURSIVE DigitsValue(_)
DigitsValue(s) ==
    IF s = <<>> THEN 0 ELSE 10 * DigitsValue(SubSeq(s, 1, Len(s) - 1)) + (s[Len(s)] - 48)

\* str::parse::<usize>().unwrap_or(0)
ParseUsizeOr0(s) ==
    IF s # <<>> /\ \A i \in 1..Len(s) : IsDigit(s[i]) THEN DigitsValue(s) ELSE 0

\* Display of a usize
RECURSIVE ToDec(_)
ToDec(n) == IF n < 10 THEN <<48 + n>> ELSE ToDec(n \div 10) \o <<48 + (n % 10)>>

RECURSIVE Concat(_)
Concat(ss) == IF ss = <<>> THEN <<>> ELSE Head(ss) \o Concat(Tail(ss))

\* a set of byte strings in ascending byte order
RECURSIVE SortedBytes(_)
SortedBytes(S) ==
    IF S = {} THEN <<>>
    ELSE LET m == CHOOSE x \in S : \A y \in S \ {x} : BytesLess(x, y)
         IN <<m>> \o SortedBytes(S \ {m})

----------------------------------------------------------------------------
(* BranchStatus, BranchInfo, RepoStatus. *)

StOk == [k |-> "Ok"]
StAhead(n) == [k |-> "Ahead", n |-> n]
StBehind(n) == [k |-> "Behind", n |-> n]
StDiverged(a, b) == [k |-> "Diverged", ahead |-> a, behind |-> b]
StNoUpstream == [k |-> "NoUpstream"]
StUncommitted(c) == [k |-> "Uncommitted", count |-> c]
StUntracked(c) == [k |-> "Untracked", count |-> c]

BranchInfo(name, status) == [name |-> name, status |-> status]

RepoStatus(path, current_branch, all_branches) ==
    [path |-> path, current_branch |-> current_branch, all_branches |-> all_branches]

Err == [ok |-> FALSE]
Ok(v) == [ok |-> TRUE, v |-> v]

----------------------------------------------------------------------------
(* Git Access: what the repository at a path answers.                      *)
(*   open      gix::open succeeds                                          *)
(*   head      repo.head_name(): an error, None (detached), or a ref name  *)
(*   status    `git status --porcelain`: spawned or not, and its stdout    *)
(*   refs_ok   repo.references() and local_branches() succeed              *)
(*   upstream  the local branches, each with its upstream configuration    *)
(*   track_ok  `git for-each-ref` could be spawned                         *)
(*   origin    the `origin` remote: absent, without fetch URL, or its URL  *)
(*   reopen    gix::open succeeds again when print_dump opens the path     *)

UpNone == [k |-> "none"]
UpGone == [k |-> "gone"]
UpTracked(a, b) == [k |-> "tracked", ahead |-> a, behind |-> b]

HeadErr == [k |-> "err"]
HeadDetached == [k |-> "none"]
HeadRef(name) == [k |-> "some", name |-> name]

\* %(upstream:track) of git for-each-ref
UpstreamTrack(u) ==
    IF u.k = "none" THEN <<>>
    ELSE IF u.k = "gone" THEN B_gone
    ELSE IF u.ahead = 0 /\ u.behind = 0 THEN <<>>
    ELSE IF u.behind = 0 THEN B_open_ahead \o <<32>> \o ToDec(u.ahead) \o <<93>>
    ELSE IF u.ahead = 0 THEN B_open_behind \o <<32>> \o ToDec(u.behind) \o <<93>>
    ELSE B_open_ahead \o <<32>> \o ToDec(u.ahead) \o <<44, 32>>
             \o B_behind \o <<32>> \o ToDec(u.behind) \o <<93>>

\* stdout of `git for-each-ref --format="%(refname:short) %(upstream:track)" refs/heads`
ForEachRefStdout(g) ==
    LET names == SortedBytes(DOMAIN g.upstream)
    IN Concat([i \in 1..Len(names) |->
                 names[i] \o <<32>> \o UpstreamTrack(g.upstream[names[i]]) \o <<10>>])

----------------------------------------------------------------------------
(* The status resolver. *)

\* get_repo_status: head_name()?.map(strip_prefix("refs/heads/")
\* .unwrap_or("HEAD")).unwrap_or("HEAD"); an error of head_name() has
\* already been returned
BranchNameOfHead(head) ==
    IF head.k = "some"
    THEN IF StartsWith(head.name, B_refs_heads)
         THEN SubSeq(head.name, Len(B_refs_heads) + 1, Len(head.name))
         ELSE B_HEAD
    ELSE B_HEAD

\* faulty variant: the prefix is not stripped
CurrentBranchName_unstripped(head) == IF head.k = "some" THEN head.name ELSE B_HEAD

\* get_all_branches: the same expression, evaluated again
CurrentBranchName(head) ==
    IF head.k = "some"
    THEN IF StartsWith(head.name, B_refs_heads)
         THEN SubSeq(head.name, Len(B_refs_heads) + 1, Len(head.name))
         ELSE B_HEAD
    ELSE B_HEAD

\* one line of the porcelain output: 0 none, 1 uncommitted, 2 untracked
ClassifyStatusLine(line) ==
    IF Len(line) >= 2
    THEN IF line[1] = 63 /\ line[2] = 63 THEN 2
         ELSE IF line[1] # 32 \/ line[2] # 32 THEN 1
         ELSE 0
    ELSE 0

\* count_changes: <<uncommitted, untracked>>; a command that cannot be
\* spawned leaves both at 0
count_changes(g) ==
    IF g.status.ok
    THEN LET ls == SplitOn(g.status.stdout, 10)
         IN <<Cardinality({i \in 1..Len(ls) : ClassifyStatusLine(ls[i]) = 1}),
              Cardinality({i \in 1..Len(ls) : ClassifyStatusLine(ls[i]) = 2})>>
    ELSE <<0, 0>>

\* the native enumeration: every local branch seeded with BranchStatus::Ok
SeedStatus == StOk

EnumeratedBranches(g) ==
    IF g.refs_ok THEN [b \in DOMAIN g.upstream |-> SeedStatus] ELSE <<>>

\* the order in which local_branches() yields the branches: the ref store
\* iterates its references in ascending order of name
EnumerationOrder(g) == SortedBytes(DOMAIN EnumeratedBranches(g))

\* the match on the (up to four) tokens that follow the branch name
TrackStatus(ts) ==
    IF Len(ts) < 2 THEN StOk
    ELSE IF ts[2] = B_open_ahead /\ Len(ts) >= 5 /\ ts[4] = B_behind
    THEN StDiverged(ParseUsizeOr0(TrimEndMatches(ts[3], 44)),
                    ParseUsizeOr0(TrimEndMatches(ts[5], 93)))
    ELSE IF ts[2] = B_open_ahead /\ Len(ts) >= 3
    THEN StAhead(ParseUsizeOr0(TrimEndMatches(ts[3], 93)))
    ELSE IF ts[2] = B_open_behind /\ Len(ts) >= 3
    THEN StBehind(ParseUsizeOr0(TrimEndMatches(ts[3], 93)))
    ELSE StNoUpstream

\* the loop over the lines of for-each-ref: a line of an enumerated branch
\* overwrites its status, any other line is ignored
RECURSIVE ApplyTracking(_, _)
ApplyTracking(statuses, ls) ==
    IF ls = <<>> THEN statuses
    ELSE LET ts == SplitWhitespace(Head(ls))
         IN IF ts = <<>> THEN ApplyTracking(statuses, Tail(ls))
            ELSE IF ts[1] \in DOMAIN statuses
            THEN ApplyTracking([statuses EXCEPT ![ts[1]] = TrackStatus(ts)], Tail(ls))
            ELSE ApplyTracking(statuses, Tail(ls))

\* branch_statuses after the enumeration and the tracking query
BranchStatuses(g) ==
    LET seeded == EnumeratedBranches(g)
    IN IF DOMAIN seeded # {} /\ g.track_ok
       THEN ApplyTracking(seeded, Lines(ForEachRefStdout(g)))
       ELSE seeded

\* faulty variant: the two synthetic entries in the other order
CurrentEntries_untracked_first(name, status, uncommitted, untracked) ==
    <<[name |-> name, status |-> status]>>
    \o (IF untracked > 0 THEN <<[name |-> <<>>, status |-> StUntracked(untracked)]>> ELSE <<>>)
    \o (IF uncommitted > 0
        THEN <<[name |-> <<>>, status |-> StUncommitted(uncommitted)]>> ELSE <<>>)

\* the head of all_branches: the current branch, then the synthetic entries
CurrentEntries(name, status, uncommitted, untracked) ==
    <<BranchInfo(name, status)>>
    \o (IF uncommitted > 0 THEN <<BranchInfo(<<>>, StUncommitted(uncommitted))>> ELSE <<>>)
    \o (IF untracked > 0 THEN <<BranchInfo(<<>>, StUntracked(untracked))>> ELSE <<>>)

\* the tail of all_branches: the map's entries in its iteration order,
\* the current branch left out
OtherEntries(statuses, order, current) ==
    LET others == SelectSeq(order, LAMBDA b : b # current)
    IN [i \in 1..Len(others) |-> BranchInfo(others[i], statuses[others[i]])]

\* the iteration orders of the HashMap branch_statuses
IterationOrders(g) == Perms(DOMAIN BranchStatuses(g))

\* get_all_branches; order is the iteration order of branch_statuses
get_all_branches(g, uncommitted, untracked, order) ==
    IF g.head.k = "err" THEN Err
    ELSE LET current_branch_name == CurrentBranchName(g.head)
             branch_statuses == BranchStatuses(g)
             current_status ==
                 IF current_branch_name \in DOMAIN branch_statuses
                 THEN branch_statuses[current_branch_name]
                 ELSE StNoUpstream
         IN Ok(CurrentEntries(current_branch_name, current_status, uncommitted, untracked)
               \o OtherEntries(branch_statuses, order, current_branch_name))

\* get_repo_status
get_repo_status(repo_path, g, order) ==
    IF ~g.open THEN Err
    ELSE IF g.head.k = "err" THEN Err
    ELSE LET current_branch == BranchNameOfHead(g.head)
             counts == count_changes(g)
             all_branches == get_all_branches(g, counts[1], counts[2], order)
         IN IF ~all_branches.ok THEN Err
            ELSE Ok(RepoStatus(repo_path, current_branch, all_branches.v))

----------------------------------------------------------------------------
(* The directory tree and the walker. *)

GitRecord(open, head, status, refs_ok, upstream, track_ok, origin, reopen) ==
    [open |-> open, head |-> head, status |-> status, refs_ok |-> refs_ok,
     upstream |-> upstream, track_ok |-> track_ok, origin |-> origin,
     reopen |-> reopen]

OriginNone == [k |-> "none"]
OriginNoUrl == [k |-> "nourl"]
OriginUrl(fetch_url) == [k |-> "url", url |-> fetch_url]

StatusFailed == [ok |-> FALSE, stdout |-> <<>>]
StatusStdout(bytes) == [ok |-> TRUE, stdout |-> bytes]

L_untracked == <<63, 63, 32, 102>>
L_modified == <<32, 77, 32, 102>>
B_url_u == <<117>>
B_url_v == <<118>>

\* Entry names of the modelled trees: plain names, a hidden name, an
\* excluded name, and a hidden name that is not valid UTF-8
B_dot_xff == <<46, 255>>
DirNames == {B_a, B_a_dash_long, B_dot_h, B_vendor, B_dot_xff}

\* The scan root of the model: a directory that itself carries an excluded name
BaseDirs == {<<B_home, B_vendor>>}

NodeKinds ==
    {[is_dir |-> FALSE, dotgit |-> "none"], [is_dir |-> TRUE, dotgit |-> "none"],
     [is_dir |-> TRUE, dotgit |-> "file"], [is_dir |-> TRUE, dotgit |-> "dir"]}

\* the places of the tree f where an entry can be added: the scan root
\* while it is missing, then any free name in a directory
FreeSlots(f, base) ==
    IF f = <<>> THEN {base}
    ELSE {Append(x[1], x[2]) :
            x \in {y \in {p \in DOMAIN f : f[p].is_dir} \X DirNames :
                      Append(y[1], y[2]) \notin DOMAIN f}}

AddEntry(f, p, kind) == [q \in DOMAIN f \cup {p} |-> IF q = p THEN kind ELSE f[q]]

\* Path::is_dir, Path::exists
IsDir(p) == p \in DOMAIN fs /\ fs[p].is_dir
GitDirExists(dir) == fs[dir].dotgit # "none"
GitDirIsDir(dir) == fs[dir].dotgit = "dir"

\* fs::read_dir: the names of the entries of dir
ReadDir(dir) == {n \in DirNames : Append(dir, n) \in DOMAIN fs}

\* OsStr::to_str: Some only for valid UTF-8 (the names here are ASCII
\* except for the byte 255, which no UTF-8 string holds)
ToStrIsSome(name) == \A i \in 1..Len(name) : name[i] < 128

SkipNames ==
    {B_node_modules, B_target, B_build, B_dist, B_out, B_pycache, B_dot_cache,
     B_vendor, B_bin, B_obj}

\* the name-based `continue`s of the loop over the entries
SkipByName(name) ==
    ToStrIsSome(name) /\ (StartsWith(name, <<46>>) \/ name \in SkipNames)

\* the entries the loop recurses into
EntriesToVisit(dir) ==
    {Append(dir, n) : n \in {m \in ReadDir(dir) :
                                ~SkipByName(m) /\ IsDir(Append(dir, m))}}

\* Vec::sort_by(|a, b| a.path.cmp(&b.path))
RECURSIVE SortByPath(_)
SortByPath(rs) ==
    IF rs = <<>> THEN <<>>
    ELSE LET i == CHOOSE j \in 1..Len(rs) :
                      \A k \in 1..Len(rs) :
                          k # j => (PathLess(rs[j].path, rs[k].path)
                                    \/ (rs[j].path = rs[k].path /\ j < k))
         IN <<rs[i]>> \o SortByPath(SubSeq(rs, 1, i - 1) \o SubSeq(rs, i + 1, Len(rs)))

\* the repositories the walker's model opens
G_unopenable ==
    GitRecord(FALSE, HeadDetached, StatusFailed, FALSE, <<>>, FALSE, OriginNone, FALSE)
G_head_unreadable ==
    GitRecord(TRUE, HeadErr, StatusStdout(<<>>), TRUE,
              [b \in {B_main} |-> UpTracked(0, 0)], TRUE, OriginUrl(B_url_u), TRUE)
G_clean_main ==
    GitRecord(TRUE, HeadRef(B_refs_heads \o B_main), StatusStdout(<<>>), TRUE,
              [b \in {B_main} |-> UpTracked(0, 0)], TRUE, OriginUrl(B_url_u), TRUE)
G_dirty_dev ==
    GitRecord(TRUE, HeadRef(B_refs_heads \o B_dev),
              StatusStdout(L_untracked \o <<10>> \o L_untracked \o <<10>>), TRUE,
              [b \in {B_dev} |-> UpTracked(1, 0)], TRUE, OriginNone, TRUE)
G_detached ==
    GitRecord(TRUE, HeadDetached,
              StatusStdout(L_modified \o <<10>> \o L_untracked \o <<10>>), TRUE,
              [b \in {B_main} |-> UpNone], TRUE, OriginNoUrl, TRUE)
G_moved ==
    GitRecord(TRUE, HeadRef(B_refs_heads \o B_fix), StatusFailed, TRUE,
              [b \in {B_main} |-> UpGone], FALSE, OriginUrl(B_url_v), FALSE)
WalkGit ==
    {G_unopenable, G_head_unreadable, G_clean_main, G_dirty_dev, G_detached, G_moved}

\* the walk is over when no call is pending: find_git_repositories sorts
WalkStep(new_stack, new_repos) ==
    /\ stack' = new_stack
    /\ IF new_stack = <<>>
       THEN repos' = SortByPath(new_repos) /\ pc' = "found"
       ELSE repos' = new_repos /\ pc' = "walk"

\* one call of find_repos_recursive on a path that is not a directory
VisitNotDir ==
    /\ pc = "walk" /\ stack # <<>>
    /\ ~IsDir(Head(stack))
    /\ WalkStep(Tail(stack), repos)
    /\ UNCHANGED <<url, info, base_dir, fs, gitin, tree, out>>

\* faulty variant: the walk goes on below a directory that has `.git`
VisitGit_recursing ==
    /\ pc = "walk" /\ stack # <<>>
    /\ IsDir(Head(stack))
    /\ GitDirExists(Head(stack))
    /\ \E below \in Perms(EntriesToVisit(Head(stack))) :
          IF GitDirIsDir(Head(stack))
          THEN \E g \in WalkGit : \E order \in IterationOrders(g) :
                  LET r == get_repo_status(Head(stack), g, order)
                  IN /\ WalkStep(below \o Tail(stack),
                                 IF r.ok THEN Append(repos, r.v) ELSE repos)
                     /\ gitin' = [q \in DOMAIN gitin \cup {Head(stack)} |->
                                     IF q = Head(stack) THEN g ELSE gitin[q]]
          ELSE WalkStep(below \o Tail(stack), repos) /\ gitin' = gitin
    /\ UNCHANGED <<url, info, base_dir, fs, tree, out>>

\* one call on a directory that has `.git`: a repository (resolved, pushed
\* when the resolution succeeds) or a submodule marker; never recursed into
VisitGit ==
    /\ pc = "walk" /\ stack # <<>>
    /\ IsDir(Head(stack))
    /\ GitDirExists(Head(stack))
    /\ IF GitDirIsDir(Head(stack))
       THEN \E g \in WalkGit : \E order \in IterationOrders(g) :
               LET r == get_repo_status(Head(stack), g, order)
               IN /\ WalkStep(Tail(stack), IF r.ok THEN Append(repos, r.v) ELSE repos)
                  /\ gitin' = [q \in DOMAIN gitin \cup {Head(stack)} |->
                                  IF q = Head(stack) THEN g ELSE gitin[q]]
       ELSE WalkStep(Tail(stack), repos) /\ gitin' = gitin
    /\ UNCHANGED <<url, info, base_dir, fs, tree, out>>

\* one call on a directory without `.git`: recurse into its entries, in the
\* order read_dir yields them; an unreadable directory is skipped
VisitPlain ==
    /\ pc = "walk" /\ stack # <<>>
    /\ IsDir(Head(stack))
    /\ ~GitDirExists(Head(stack))
    /\ \E readable \in BOOLEAN :
          \E order \in Perms(IF readable THEN EntriesToVisit(Head(stack)) ELSE {}) :
              WalkStep(order \o Tail(stack), repos)
    /\ UNCHANGED <<url, info, base_dir, fs, gitin, tree, out>>

----------------------------------------------------------------------------
(* The renderers.  stdout is kept as the sequence of the pieces written,   *)
(* each with the repository it was written for (<<>> for none); the colour *)
(* escapes of termcolor are left out of the text.                          *)

T_ok == <<32, 111, 107>>
T_ahead == <<32, 97, 104, 101, 97, 100>>
T_behind == <<32, 98, 101, 104, 105, 110, 100>>
T_no_upstream == <<32, 110, 111, 32, 117, 112, 115, 116, 114, 101, 97, 109>>
T_open_bracket == <<32, 32, 91, 32>>
T_uncommitted == <<32, 117, 110, 99, 111, 109, 109, 105, 116, 116, 101, 100, 32, 93>>
T_untracked == <<32, 117, 110, 116, 114, 97, 99, 107, 101, 100, 32, 93>>
T_no_repos == <<32, 32, 78, 111, 32, 103, 105, 116, 32, 114, 101, 112, 111, 115, 105, 116, 111, 114, 105, 101, 115, 32, 102, 111, 117, 110, 100>>
T_last == <<226, 148, 148, 226, 148, 128, 226, 148, 128, 32>>
T_mid == <<226, 148, 156, 226, 148, 128, 226, 148, 128, 32>>
T_blank == <<32, 32, 32, 32>>
T_guide == <<226, 148, 130, 32, 32, 32>>

Piece(repo, text) == [repo |-> repo, text |-> text]

\* print_branch_status
print_branch_status(status) ==
    CASE status.k = "Ok" -> T_ok
      [] status.k = "Ahead" -> <<32>> \o ToDec(status.n) \o T_ahead
      [] status.k = "Behind" -> <<32>> \o ToDec(status.n) \o T_behind
      [] status.k = "Diverged" ->
            <<32>> \o ToDec(status.ahead) \o T_ahead
            \o <<32>> \o ToDec(status.behind) \o T_behind
      [] status.k = "NoUpstream" -> T_no_upstream
      [] status.k = "Uncommitted" -> T_open_bracket \o ToDec(status.count) \o T_uncommitted
      [] status.k = "Untracked" -> T_open_bracket \o ToDec(status.count) \o T_untracked

\* Iterator::find(|b| b.name == repo.current_branch): the index, 0 for None
FindCurrent(repo) ==
    LET hits == {i \in 1..Len(repo.all_branches) :
                    repo.all_branches[i].name = repo.current_branch}
    IN IF hits = {} THEN 0 ELSE CHOOSE i \in hits : \A j \in hits : i <= j

\* faulty variant: every entry of all_branches is printed, the synthetic ones too
FlatLine_all_entries(repo) ==
    Display(repo.path)
    \o (IF FindCurrent(repo) # 0
        THEN <<32, 40>> \o repo.current_branch \o <<41>>
             \o Concat([i \in 1..Len(repo.all_branches) |->
                          IF repo.all_branches[i].name \in {<<>>, repo.current_branch}
                          THEN print_branch_status(repo.all_branches[i].status)
                          ELSE <<>>])
        ELSE <<>>)
    \o <<10>>

\* the line print_flat writes for one repository
FlatLine(repo) ==
    LET i == FindCurrent(repo)
    IN Display(repo.path)
       \o (IF i # 0
           THEN <<32, 40>> \o repo.all_branches[i].name \o <<41>>
                \o print_branch_status(repo.all_branches[i].status)
           ELSE <<>>)
       \o <<10>>

\* print_flat
print_flat(rs) == [i \in 1..Len(rs) |-> Piece(rs[i].path, FlatLine(rs[i]))]

\* print_dump prints a repository iff it opens again, has an `origin`
\* remote and the remote has a fetch URL
DumpPrints(g) == g.reopen /\ g.origin.k = "url"

DumpLine(repo, g) == g.origin.url \o <<32>> \o repo.current_branch \o <<10>>

\* faulty variant: the loop ends at the first repository that is not printed
RECURSIVE print_dump_stopping(_, _)
print_dump_stopping(rs, gits) ==
    IF rs = <<>> THEN <<>>
    ELSE IF DumpPrints(gits[Head(rs).path])
    THEN <<Piece(Head(rs).path, DumpLine(Head(rs), gits[Head(rs).path]))>>
         \o print_dump_stopping(Tail(rs), gits)
    ELSE <<>>

\* print_dump; gits is what each repository answers
RECURSIVE print_dump(_, _)
print_dump(rs, gits) ==
    IF rs = <<>> THEN <<>>
    ELSE (IF DumpPrints(gits[Head(rs).path])
          THEN <<Piece(Head(rs).path, DumpLine(Head(rs), gits[Head(rs).path]))>>
          ELSE <<>>)
         \o print_dump(Tail(rs), gits)

----------------------------------------------------------------------------
(* The tree: a node is the sequence of path segments that leads to it from *)
(* the synthetic root <<>>.                                                *)

NoStatus == [some |-> FALSE]
SomeStatus(status) == [some |-> TRUE, v |-> status]

\* TreeNode::new
TreeNodeNew(name) == [name |-> name, repo_status |-> NoStatus]

\* Path::strip_prefix
StripPrefix(p, base) ==
    IF IsPrefix(base, p) THEN Ok(SubSeq(p, Len(base) + 1, Len(p))) ELSE Err

\* OsStr::to_string_lossy: a byte that is not part of valid UTF-8 becomes
\* U+FFFD (of the names here only the byte 255 is above the ASCII range)
RECURSIVE ToStringLossy(_)
ToStringLossy(name) ==
    IF name = <<>> THEN <<>>
    ELSE (IF Head(name) < 128 THEN <<Head(name)>> ELSE <<239, 191, 189>>)
         \o ToStringLossy(Tail(name))

\* the body of the loop of build_tree_structure for one repository
InsertRepo(t, repo, base) ==
    LET rel == StripPrefix(repo.path, base)
    IN IF ~rel.ok THEN t
       ELSE LET components == [i \in 1..Len(rel.v) |-> ToStringLossy(rel.v[i])]
                created == {SubSeq(components, 1, i) : i \in 1..Len(components)}
            IN [q \in DOMAIN t \cup created |->
                  LET node == IF q \in DOMAIN t THEN t[q] ELSE TreeNodeNew(q[Len(q)])
                  IN IF q = components /\ components # <<>>
                     THEN [node EXCEPT !.repo_status = SomeStatus(repo)]
                     ELSE node]

\* build_tree_structure
RECURSIVE BuildFrom(_, _, _)
BuildFrom(t, rs, base) ==
    IF rs = <<>> THEN t ELSE BuildFrom(InsertRepo(t, Head(rs), base), Tail(rs), base)

build_tree_structure(rs, base) ==
    BuildFrom([q \in {<<>>} |-> TreeNodeNew(<<>>)], rs, base)

Children(t, p) == {q \in DOMAIN t : Len(q) = Len(p) + 1 /\ IsPrefix(p, q)}

\* children.sort_by_key(|(name, _)| name.as_str())
RECURSIVE SortedChildren(_, _)
SortedChildren(t, S) ==
    IF S = {} THEN <<>>
    ELSE LET m == CHOOSE x \in S : \A y \in S \ {x} : BytesLess(t[x].name, t[y].name)
         IN <<m>> \o SortedChildren(t, S \ {m})

\* the column later branches are aligned to
NameColumn == 20

Spaces(n) == [i \in 1..n |-> 32]

Guide(is_last) == IF is_last THEN T_blank ELSE T_guide

\* faulty variant: every named branch goes on the line of the node
BranchesText_inline(bs, first_branch, prefix, is_last, name) ==
    Concat([j \in 1..Len(bs) |->
              (IF bs[j].name # <<>> THEN <<32>> \o bs[j].name ELSE <<>>)
              \o print_branch_status(bs[j].status)])

\* the loop over status.all_branches of print_tree_node
RECURSIVE BranchesText(_, _, _, _, _)
BranchesText(bs, first_branch, prefix, is_last, name) ==
    IF bs = <<>> THEN <<>>
    ELSE LET branch == Head(bs)
         IN IF first_branch /\ branch.name # <<>>
            THEN <<32>> \o branch.name \o print_branch_status(branch.status)
                 \o BranchesText(Tail(bs), FALSE, prefix, is_last, name)
            ELSE IF branch.name # <<>>
            THEN <<10>> \o prefix \o Guide(is_last)
                 \o Spaces(IF Len(name) >= NameColumn THEN 0 ELSE NameColumn - Len(name))
                 \o branch.name \o print_branch_status(branch.status)
                 \o BranchesText(Tail(bs), first_branch, prefix, is_last, name)
            ELSE print_branch_status(branch.status)
                 \o BranchesText(Tail(bs), first_branch, prefix, is_last, name)

\* what print_tree_node writes for the node itself
NodeText(node, prefix, is_last) ==
    prefix \o (IF is_last THEN T_last ELSE T_mid) \o node.name
    \o (IF node.repo_status.some
        THEN BranchesText(node.repo_status.v.all_branches, TRUE, prefix, is_last, node.name)
        ELSE <<>>)
    \o <<10>>

\* print_tree_node: the node, then its children in ascending order of name
RECURSIVE print_tree_node(_, _, _, _)
print_tree_node(t, p, prefix, is_last) ==
    LET node == t[p]
        children == SortedChildren(t, Children(t, p))
        child_prefix == IF node.name # <<>> THEN prefix \o Guide(is_last) ELSE prefix
    IN (IF node.name # <<>>
        THEN <<Piece(IF node.repo_status.some THEN node.repo_status.v.path ELSE <<>>,
                     NodeText(node, prefix, is_last))>>
        ELSE <<>>)
       \o Concat([i \in 1..Len(children) |->
                    print_tree_node(t, children[i], child_prefix, i = Len(children))])

\* print_tree, given the tree it builds
print_tree(rs, base, t) ==
    <<Piece(<<>>, Display(base) \o <<10>>)>>
    \o (IF rs = <<>> THEN <<Piece(<<>>, T_no_repos \o <<10>>)>>
        ELSE print_tree_node(t, <<>>, <<>>, TRUE))

\* the environment, before the run: one more file or directory at or below
\* the scan root, at most MaxNodes of them below it
MkEntry ==
    /\ pc = "setup"
    /\ Cardinality(DOMAIN fs) < MaxNodes + 1
    /\ \E p \in FreeSlots(fs, base_dir) : \E kind \in NodeKinds :
          fs' = AddEntry(fs, p, kind)
    /\ UNCHANGED <<url, info, base_dir, gitin, stack, repos, tree, out, pc>>

\* execute: find_git_repositories(base_dir) starts the walk at the scan root
Execute ==
    /\ pc = "setup"
    /\ stack' = <<base_dir>>
    /\ pc' = "walk"
    /\ UNCHANGED <<url, info, base_dir, fs, gitin, repos, tree, out>>

\* execute with output format "tree"
PrintTree ==
    /\ pc = "found"
    /\ tree' = IF repos = <<>> THEN tree ELSE build_tree_structure(repos, base_dir)
    /\ out' = print_tree(repos, base_dir, tree')
    /\ pc' = "tree"
    /\ UNCHANGED <<url, info, base_dir, fs, gitin, stack, repos>>

\* execute with output format "flat"
PrintFlat ==
    /\ pc = "found"
    /\ out' = print_flat(repos)
    /\ pc' = "flat"
    /\ UNCHANGED <<url, info, base_dir, fs, gitin, stack, repos, tree>>

\* execute with output format "dump"
PrintDump ==
    /\ pc = "found"
    /\ out' = print_dump(repos, gitin)
    /\ pc' = "dump"
    /\ UNCHANGED <<url, info, base_dir, fs, gitin, stack, repos, tree>>

\* execute with any other output format: an error, nothing is printed
InvalidFormat ==
    /\ pc = "found"
    /\ pc' = "error"
    /\ UNCHANGED <<url, info, base_dir, fs, gitin, stack, repos, tree, out>>

----------------------------------------------------------------------------
(* The status resolver on its own: one repository, of any of the modelled  *)
(* answers of Git Access, resolved and rendered.                           *)

BranchPool == <<B_main, B_dev, B_fix>>

UpstreamStates ==
    {UpNone, UpGone, UpTracked(0, 0), UpTracked(1, 0), UpTracked(0, 2), UpTracked(1, 2)}

\* the local branches of a repository with their upstreams: at most
\* MaxBranches branches
Upstreams ==
    UNION {[S -> UpstreamStates] :
             S \in SUBSET {BranchPool[i] : i \in 1..Len(BranchPool)
                                              \cap 1..MaxBranches}}

Heads ==
    {HeadErr, HeadDetached, HeadRef(B_refs_remotes \o B_main)}
    \cup {HeadRef(B_refs_heads \o BranchPool[i]) : i \in 1..Len(BranchPool)}

RECURSIVE SeqsUpTo(_, _)
SeqsUpTo(S, n) ==
    IF n = 0 THEN {<<>>}
    ELSE LET shorter == SeqsUpTo(S, n - 1)
         IN shorter \cup {Append(q, x) : q \in shorter, x \in S}

\* the outputs of `git status --porcelain`: every line ends with "\n"
StatusAnswers ==
    {StatusFailed}
    \cup {StatusStdout(Concat([i \in 1..Len(ls) |-> ls[i] \o <<10>>])) :
            ls \in SeqsUpTo({L_untracked, L_modified}, MaxStatusLines)}

GitInputs ==
    {G_unopenable}
    \cup {GitRecord(TRUE, head, status, flags[1], upstream, flags[2],
                    OriginUrl(B_url_u), TRUE) :
            head \in Heads, status \in StatusAnswers, upstream \in Upstreams,
            flags \in BOOLEAN \X BOOLEAN}

\* the repository the resolver is run on
RepoPath == <<B_home, B_vendor, B_a>>

\* get_repo_status on the repository, as the walker calls it
Resolve ==
    /\ pc = "resolve"
    /\ \E order \in IterationOrders(gitin[RepoPath]) :
          LET r == get_repo_status(RepoPath, gitin[RepoPath], order)
          IN repos' = IF r.ok THEN <<r.v>> ELSE <<>>
    /\ pc' = "found"
    /\ UNCHANGED <<url, info, base_dir, fs, gitin, stack, tree, out>>

InitStatus ==
    /\ base_dir = <<B_home, B_vendor>>
    /\ fs = [q \in {base_dir, RepoPath} |->
                [is_dir |-> TRUE, dotgit |-> IF q = RepoPath THEN "dir" ELSE "none"]]
    /\ gitin \in [{RepoPath} -> GitInputs]
    /\ stack = <<>>
    /\ repos = <<>>
    /\ tree = <<>>
    /\ out = <<>>
    /\ pc = "resolve"
    /\ url = <<>>
    /\ info = <<>>

NextStatus == Resolve \/ PrintTree \/ PrintFlat \/ PrintDump \/ InvalidFormat

SpecStatus == InitStatus /\ [][NextStatus]_vars

Init ==
    /\ base_dir \in BaseDirs
    /\ fs = <<>>
    /\ gitin = <<>>
    /\ stack = <<>>
    /\ repos = <<>>
    /\ tree = <<>>
    /\ out = <<>>
    /\ pc = "setup"
    /\ url = <<>>
    /\ info = <<>>

Next ==
    \/ MkEntry \/ Execute
    \/ VisitNotDir \/ VisitGit \/ VisitPlain
    \/ PrintTree \/ PrintFlat \/ PrintDump \/ InvalidFormat

Spec == Init /\ [][Next]_vars

----------------------------------------------------------------------------
(* The repository-URL parser of src/src/url_parser.rs. *)

B_https == <<104, 116, 116, 112, 115, 58, 47, 47>>
B_http == <<104, 116, 116, 112, 58, 47, 47>>
B_git_at == <<103, 105, 116, 64>>
B_dot_git_suffix == <<46, 103, 105, 116>>

EndsWith(s, p) == Len(s) >= Len(p) /\ SubSeq(s, Len(s) - Len(p) + 1, Len(s)) = p

\* char::is_whitespace on the ASCII range
IsWhitespace(b) == b \in {9, 10, 11, 12, 13, 32}

\* str::trim
RECURSIVE Trim(_)
Trim(s) ==
    IF s # <<>> /\ IsWhitespace(s[1]) THEN Trim(Tail(s))
    ELSE IF s # <<>> /\ IsWhitespace(s[Len(s)]) THEN Trim(SubSeq(s, 1, Len(s) - 1))
    ELSE s

\* str::trim_start_matches with a string pattern: every repetition goes
RECURSIVE TrimStartMatchesStr(_, _)
TrimStartMatchesStr(s, pat) ==
    IF StartsWith(s, pat) THEN TrimStartMatchesStr(SubSeq(s, Len(pat) + 1, Len(s)), pat)
    ELSE s

\* str::trim_end_matches with a string pattern: every repetition goes
RECURSIVE TrimEndMatchesStr(_, _)
TrimEndMatchesStr(s, pat) ==
    IF EndsWith(s, pat) THEN TrimEndMatchesStr(SubSeq(s, 1, Len(s) - Len(pat)), pat)
    ELSE s

\* str::matches(c).count()
CountByte(s, c) == Cardinality({i \in 1..Len(s) : s[i] = c})

RepoInfo(host, owner, name, full_url) ==
    [host |-> host, owner |-> owner, name |-> name, full_url |-> full_url]

\* format!("https://{}/{}/{}.git", host, owner, name)
HttpsFullUrl(host, owner, name) ==
    B_https \o host \o <<47>> \o owner \o <<47>> \o name \o B_dot_git_suffix

\* format!("git@{}:{}/{}.git", host, owner, name)
SshFullUrl(host, owner, name) ==
    B_git_at \o host \o <<58>> \o owner \o <<47>> \o name \o B_dot_git_suffix

parse_https_url(u) ==
    LET parts == SplitOn(TrimStartMatchesStr(TrimStartMatchesStr(u, B_https), B_http), 47)
    IN IF Len(parts) < 3 THEN Err
       ELSE LET host == parts[1]
                owner == parts[2]
                name == TrimEndMatchesStr(parts[3], B_dot_git_suffix)
            IN Ok(RepoInfo(host, owner, name, HttpsFullUrl(host, owner, name)))

\* faulty variant: owner and name taken from the wrong pieces
parse_ssh_url_swapped(u) ==
    LET parts == SplitOn(TrimStartMatchesStr(u, B_git_at), 58)
    IN IF Len(parts) # 2 THEN Err
       ELSE LET path_parts == SplitOn(parts[2], 47)
            IN IF Len(path_parts) # 2 THEN Err
               ELSE Ok(RepoInfo(parts[1], path_parts[2], path_parts[1],
                                SshFullUrl(parts[1], path_parts[2], path_parts[1])))

parse_ssh_url(u) ==
    LET parts == SplitOn(TrimStartMatchesStr(u, B_git_at), 58)
    IN IF Len(parts) # 2 THEN Err
       ELSE LET host == parts[1]
                path_parts == SplitOn(parts[2], 47)
            IN IF Len(path_parts) # 2 THEN Err
               ELSE LET owner == path_parts[1]
                        name == TrimEndMatchesStr(path_parts[2], B_dot_git_suffix)
                    IN Ok(RepoInfo(host, owner, name, SshFullUrl(host, owner, name)))

parse_short_url(u) ==
    LET parts == SplitOn(u, 47)
    IN IF Len(parts) # 2 THEN Err
       ELSE Ok(RepoInfo(<<>>, parts[1], TrimEndMatchesStr(parts[2], B_dot_git_suffix),
                        <<>>))

parse_host_url(u) ==
    LET parts == SplitOn(u, 47)
    IN IF Len(parts) < 3 THEN Err
       ELSE LET host == parts[1]
                owner == parts[2]
                name == TrimEndMatchesStr(parts[3], B_dot_git_suffix)
            IN Ok(RepoInfo(host, owner, name, HttpsFullUrl(host, owner, name)))

parse_repo_url(input) ==
    LET u == Trim(input)
    IN IF StartsWith(u, B_https) \/ StartsWith(u, B_http) THEN parse_https_url(u)
       ELSE IF StartsWith(u, B_git_at) THEN parse_ssh_url(u)
       ELSE IF CountByte(u, 47) > 0
       THEN IF CountByte(u, 47) = 1 THEN parse_short_url(u) ELSE parse_host_url(u)
       ELSE Err

\* the references the parser is given: an optional scheme or blank in
\* front, up to MaxSegments pieces separated by "/" or ":", an optional
\* line end behind
B_h == <<104>>
B_o == <<111>>
B_n == <<110>>
UrlPlainSegments == {<<>>, B_h, B_o, B_n}
UrlSegments ==
    UrlPlainSegments
    \cup {B_n \o B_dot_git_suffix, B_n \o B_dot_git_suffix \o B_dot_git_suffix}
RECURSIVE UrlBodies(_)
UrlBodies(n) ==
    IF n = 1 THEN UrlSegments
    ELSE {b \o sep \o seg : b \in UrlBodies(n - 1), sep \in {<<47>>, <<58>>},
                            seg \in UrlSegments}

UrlInputs ==
    {pre \o b \o suf : pre \in {<<>>, <<32>>, B_https, B_http, B_git_at},
                       b \in UNION {UrlBodies(k) : k \in 1..MaxSegments},
                       suf \in {<<>>, <<10>>}}

\* a caller of parse_repo_url
ParseRepoUrl ==
    /\ pc = "parse"
    /\ info' = parse_repo_url(url)
    /\ pc' = "parsed"
    /\ UNCHANGED <<url, base_dir, fs, gitin, stack, repos, tree, out>>

InitUrl ==
    /\ url \in UrlInputs
    /\ info = <<>>
    /\ base_dir = <<B_home>>
    /\ fs = <<>>
    /\ gitin = <<>>
    /\ stack = <<>>
    /\ repos = <<>>
    /\ tree = <<>>
    /\ out = <<>>
    /\ pc = "parse"

NextUrl == ParseRepoUrl

SpecUrl == InitUrl /\ [][NextUrl]_vars

----------------------------------------------------------------------------
(* The claims. *)

RepoPaths == [i \in 1..Len(repos) |-> repos[i].path]

\* the repositories the output shows, in the order it shows them
OutRepos == SelectSeq([i \in 1..Len(out) |-> out[i].repo], LAMBDA p : p # <<>>)

RepoAt(p) == repos[CHOOSE i \in 1..Len(repos) : repos[i].path = p]

\* C1: the walker's list never holds two paths of which one is a strict
\* ancestor of the other, and no call of the walk is ever made for a
\* directory below one that has `.git`
C1_NoNesting ==
    /\ \A i, j \in 1..Len(repos) : ~StrictAncestor(repos[i].path, repos[j].path)
    /\ \A k \in 1..Len(stack) : \A p \in DOMAIN fs :
          StrictAncestor(p, stack[k]) => ~GitDirExists(p)

\* the walk is over, and a repository lies below a reported repository
C1_Witness ==
    /\ pc = "found"
    /\ \E i \in 1..Len(repos) : \E p \in DOMAIN fs :
          StrictAncestor(repos[i].path, p) /\ fs[p].is_dir /\ GitDirIsDir(p)

\* C2: a branch is reported Ok only if it has an upstream and is 0 ahead and
\* 0 behind it, and a branch without upstream is reported NoUpstream (stated
\* for the repositories whose tracking query ran: the others are C6's)
C2_OkOnlyInSync ==
    \A i \in 1..Len(repos) :
        LET ab == repos[i].all_branches
            up == gitin[repos[i].path].upstream
        IN \A j \in 1..Len(ab) :
              (gitin[repos[i].path].track_ok /\ ab[j].name \in DOMAIN up) =>
                  /\ ab[j].status = StOk => up[ab[j].name] = UpTracked(0, 0)
                  /\ up[ab[j].name] = UpNone => ab[j].status = StNoUpstream

\* C3: the first entry of all_branches is named and carries the name of
\* current_branch
C3_CurrentFirst ==
    \A i \in 1..Len(repos) :
        /\ Len(repos[i].all_branches) >= 1
        /\ repos[i].all_branches[1].name = repos[i].current_branch
        /\ repos[i].all_branches[1].name # <<>>

\* a resolved repository whose current branch is not among the enumerated
\* branches, with changes and another branch
C3_Witness ==
    /\ pc = "found" /\ repos # <<>>
    /\ repos[1].current_branch \notin DOMAIN BranchStatuses(gitin[RepoPath])
    /\ Len(repos[1].all_branches) >= 3

\* C4: Uncommitted is present iff the uncommitted count is positive and
\* Untracked iff the untracked count is positive; they are unnamed and follow
\* the current branch directly, Uncommitted first; every other entry is named
C4_Synthetic ==
    \A i \in 1..Len(repos) :
        LET ab == repos[i].all_branches
            c == count_changes(gitin[repos[i].path])
            U == {j \in 1..Len(ab) : ab[j].status.k = "Uncommitted"}
            T == {j \in 1..Len(ab) : ab[j].status.k = "Untracked"}
        IN /\ U = IF c[1] > 0 THEN {2} ELSE {}
           /\ T = IF c[2] > 0 THEN {IF c[1] > 0 THEN 3 ELSE 2} ELSE {}
           /\ \A j \in U : ab[j] = [name |-> <<>>, status |-> StUncommitted(c[1])]
           /\ \A j \in T : ab[j] = [name |-> <<>>, status |-> StUntracked(c[2])]
           /\ \A j \in 1..Len(ab) : ab[j].name = <<>> <=> j \in U \cup T

\* a resolved repository with uncommitted and untracked changes and a branch
\* besides the current one
C4_Witness ==
    /\ pc = "found" /\ repos # <<>>
    /\ count_changes(gitin[RepoPath])[1] > 0
    /\ count_changes(gitin[RepoPath])[2] > 0
    /\ Len(repos[1].all_branches) >= 4

\* C5: a repository that opens is always in the walker's list, with current
\* branch HEAD when its HEAD cannot be read
C5_FailsOnlyIfUnopenable ==
    \A p \in DOMAIN gitin :
        gitin[p].open =>
            /\ p \in Range(RepoPaths)
            /\ gitin[p].head = HeadErr => RepoAt(p).current_branch = B_HEAD

\* C6: when the tracking query cannot be run, every enumerated branch is
\* reported NoUpstream
C6_TrackingFailureIsNoUpstream ==
    \A i \in 1..Len(repos) :
        LET ab == repos[i].all_branches
            g == gitin[repos[i].path]
        IN ~g.track_ok =>
              \A j \in 1..Len(ab) :
                  ab[j].name \in DOMAIN EnumeratedBranches(g) =>
                      ab[j].status = StNoUpstream

\* the names the walker is said to skip
NamedExcluded(name) == StartsWith(name, <<46>>) \/ name \in SkipNames

\* C7: no reported repository lies at or below an entry of the scan whose
\* name starts with `.` or is one of the excluded names
C7_ExcludedNeverReported ==
    \A i \in 1..Len(repos) :
        \A k \in (Len(base_dir) + 1)..Len(repos[i].path) :
            ~NamedExcluded(repos[i].path[k])

T_dev_1_ahead == <<32, 40, 100, 101, 118, 41, 32, 49, 32, 97, 104, 101, 97, 100>>

HasByte(text, byte) == \E k \in 1..Len(text) : text[k] = byte

\* C9: the flat output is one line per repository of the list: the path,
\* the current branch in parentheses, the status of the current branch's
\* entry, and no annotation of uncommitted or untracked changes
C9_FlatLines ==
    pc = "flat" =>
        /\ Len(out) = Len(repos)
        /\ \A i \in 1..Len(repos) :
              LET text == out[i].text
                  head == Display(repos[i].path)
                              \o <<32, 40>> \o repos[i].current_branch \o <<41>>
              IN /\ out[i].repo = repos[i].path
                 /\ text = head \o print_branch_status(repos[i].all_branches[1].status)
                                \o <<10>>
                 /\ repos[i].all_branches[1].status.k
                        \in {"Ok", "Ahead", "Behind", "Diverged", "NoUpstream"}
                 /\ ~HasByte(text, 91)
                 /\ \A k \in 1..Len(text) : text[k] = 10 <=> k = Len(text)
                 /\ gitin[repos[i].path] = G_dirty_dev =>
                        text = Display(repos[i].path) \o T_dev_1_ahead \o <<10>>

\* a flat output with a repository on dev, 1 ahead, with 2 untracked files
C9_Witness ==
    /\ pc = "flat"
    /\ \E i \in 1..Len(repos) :
          /\ gitin[repos[i].path] = G_dirty_dev
          /\ count_changes(gitin[repos[i].path]) = <<0, 2>>

DumpPrintable(p) == gitin[p].reopen /\ gitin[p].origin.k = "url"

\* C10: the dump output is, in list order, one line `URL branch` for each
\* repository that opens and has an origin with a fetch URL, and nothing for
\* the others
C10_Dump ==
    pc = "dump" =>
        /\ Len(OutRepos) = Len(out)
        /\ OutRepos = SelectSeq(RepoPaths, DumpPrintable)
        /\ \A i \in 1..Len(out) :
              out[i].text = gitin[out[i].repo].origin.url \o <<32>>
                                \o RepoAt(out[i].repo).current_branch \o <<10>>

\* a dump of three repositories, the middle one without a usable origin
C10_Witness ==
    /\ pc = "dump"
    /\ Len(repos) = 3
    /\ DumpPrintable(repos[1].path)
    /\ ~DumpPrintable(repos[2].path)
    /\ DumpPrintable(repos[3].path)
    /\ Len(out) = 2

\* "h/o/n"-style texts of the forms of C11
UrlJoin3(a, b, c) == a \o <<47>> \o b \o <<47>> \o c

OtherNames(repo) ==
    SelectSeq([j \in 1..(Len(repo.all_branches) - 1) |-> repo.all_branches[j + 1].name],
              LAMBDA b : b # <<>>)

\* C12: the entries after the current branch and the synthetic entries are
\* the enumerated branches other than the current one, each once, in the
\* order of the enumeration, which the repository state alone determines
C12_OthersInEnumerationOrder ==
    \A i \in 1..Len(repos) :
        OtherNames(repos[i])
            = SelectSeq(EnumerationOrder(gitin[repos[i].path]),
                        LAMBDA b : b # repos[i].current_branch)

\* C13: a call of the walk on a directory whose `.git` is a regular file
\* does not report the directory and goes on to its non-skipped
\* subdirectories, as for a directory without `.git`
C13_MarkerIgnored ==
    [][(/\ pc = "walk" /\ stack # <<>>
        /\ IsDir(Head(stack))
        /\ fs[Head(stack)].dotgit = "file")
       => /\ \A i \in 1..Len(repos') : repos'[i].path # Head(stack)
          /\ \A q \in EntriesToVisit(Head(stack)) : q \in Range(stack')]_vars

\* the node of a path below the scan root: its segments, as text
NodeOf(p) == [i \in 1..(Len(p) - Len(base_dir)) |-> ToStringLossy(p[Len(base_dir) + i])]

\* C14: in the tree built from the walker's list, every status is carried by
\* the node its path relative to the scan root leads to, a node carries a
\* status only if it is the node of a listed repository, and the tree output
\* shows every repository of the list
C14_EveryStatusInTree ==
    (pc = "tree" /\ repos # <<>>) =>
        /\ \A i \in 1..Len(repos) :
              /\ NodeOf(repos[i].path) \in DOMAIN tree
              /\ tree[NodeOf(repos[i].path)].repo_status = SomeStatus(repos[i])
        /\ \A q \in DOMAIN tree :
              tree[q].repo_status.some =>
                  \E i \in 1..Len(repos) : q = NodeOf(repos[i].path)
        /\ Range(OutRepos) = Range(RepoPaths)

\* a node is the last of its siblings in ascending order of name
IsLastSibling(q) ==
    \A r \in DOMAIN tree :
        (Len(r) = Len(q) /\ r # q /\ SubSeq(r, 1, Len(r) - 1) = SubSeq(q, 1, Len(q) - 1))
            => BytesLess(r[Len(r)], q[Len(q)])

\* what precedes the connector of a node: one guide for each of its ancestors
PrefixOf(q) ==
    Concat([j \in 1..(Len(q) - 1) |-> Guide(IsLastSibling(SubSeq(q, 1, j)))])

\* the indices of the named entries of a list of branches, ascending
NamedIndices(ab) ==
    LET idx == {j \in 1..Len(ab) : ab[j].name # <<>>}
    IN [k \in 1..Cardinality(idx) |->
          CHOOSE j \in idx : Cardinality({m \in idx : m < j}) = k - 1]

\* what a line of a repository node starts with: the node's name on the
\* first line, the guide and the indentation on the later ones
LineLead(q, k) ==
    IF k = 1
    THEN PrefixOf(q) \o (IF IsLastSibling(q) THEN T_last ELSE T_mid) \o q[Len(q)] \o <<32>>
    ELSE PrefixOf(q) \o Guide(IsLastSibling(q))
         \o Spaces(IF Len(q[Len(q)]) > NameColumn THEN 0 ELSE NameColumn - Len(q[Len(q)]))

\* the status texts of the entries from index a to index b
StatusTexts(ab, a, b) ==
    Concat([j \in 1..(b - a + 1) |-> print_branch_status(ab[a + j - 1].status)])

=============================================================================
